---- MODULE Spec2Model ----
(***************************************************************************)
(* Rules datastore, configuration loader and matching engine of the        *)
(* inbound email reader/router (email_router/email_router_datastore.py).   *)
(*                                                                         *)
(* Text is a sequence of one-character strings, so that str.split('@')     *)
(* and re.search are computed rather than assumed.  A Python / JSON value  *)
(* is a record tagged with its type.                                       *)
(***************************************************************************)
EXTENDS Integers, Sequences, FiniteSets, TLC

\* ------------------------------------------------------------------ bounds
\* number of entries of the router_rules list of a configuration document
MaxEntries == 2
\* number of recipients of an inbound message
MaxRecipients == 2

\* ------------------------------------------------------------------ values
PyNone == [type |-> "NoneType"]
PyStr(s) == [type |-> "str", str |-> s]
PyInt(n) == [type |-> "int", int |-> n]
PyBool(b) == [type |-> "bool", bool |-> b]
\* a key that the JSON object does not hold
NoKey == [type |-> "absent"]

IsStr(v) == v.type = "str"
IsInt(v) == v.type = "int"
IsBool(v) == v.type = "bool"

\* str.lower() on one character (the alphabet of the model)
Lower(c) == CASE c = "A" -> "a"
              [] c = "B" -> "b"
              [] c = "X" -> "x"
              [] OTHER -> c

\* str.split('@'): the list of the pieces between the '@' signs
RECURSIVE SplitAt(_, _, _)
SplitAt(s, i, cur) ==
    IF i > Len(s) THEN <<cur>>
    ELSE IF s[i] = "@" THEN <<cur>> \o SplitAt(s, i + 1, <<>>)
    ELSE SplitAt(s, i + 1, Append(cur, s[i]))

Split(s) == SplitAt(s, 1, <<>>)

\* re.search(pattern, text, re.IGNORECASE) for a literal pattern: a match
\* object exists iff the pattern occurs somewhere in the text, case ignored
ReSearch(pattern, text) ==
    \E i \in 1..(Len(text) - Len(pattern) + 1) :
        \A k \in 1..Len(pattern) : Lower(text[i + k - 1]) = Lower(pattern[k])

\* re.search compiles the pattern first: "(" opens a group that nothing in
\* the alphabet closes, and the pattern is refused with re.error
Compiles(pattern) == \A k \in 1..Len(pattern) : pattern[k] # "("

\* ------------------------------------------------------------ IP addresses
\* width of an address in bits, and the address space
AddrBits == 4
RECURSIVE Pow2(_)
Pow2(n) == IF n = 0 THEN 1 ELSE 2 * Pow2(n - 1)
AddrSpace == 0..(Pow2(AddrBits) - 1)

\* netaddr.IPNetwork(text): a network is an address and a prefix length
IPNetwork(addr, prefix) == [addr |-> addr, prefix |-> prefix]
\* text that netaddr cannot parse (AddrFormatError)
BadAddr == [bad |-> TRUE]
IsNetwork(n) == DOMAIN n = {"addr", "prefix"}

\* netaddr.IPAddress(text) succeeds: the text of an address is the number it
\* denotes, and a number outside the address space does not parse
IsAddress(ip) == ip \in AddrSpace

\* `ip in network` with the last address of the network left out
InNetwork_ExcludesBroadcast(a, n) ==
    LET size == Pow2(AddrBits - n.prefix)
        first == (n.addr \div size) * size
        last == first + size - 1
    IN first <= a /\ a < last

\* `ip in network`: first <= ip <= last, network and broadcast included
InNetwork(a, n) ==
    LET size == Pow2(AddrBits - n.prefix)
        first == (n.addr \div size) * size
        last == first + size - 1
    IN first <= a /\ a <= last

\* ------------------------------------------------------------ value types
EmailRouterDestinationConfig(dtype, seq, uri) ==
    [destination_type |-> dtype, destination_sequence |-> seq, destination_uri |-> uri]

\* EmailRouterDestinationConfig.__lt__: the sequences decide when they
\* differ; with equal sequences `self.destination_type < other.destination_type`
\* compares two members of a plain Enum, which defines no order, and raises
\* TypeError before destination_uri is looked at
DestinationLt(self, other) ==
    IF self.destination_sequence < other.destination_sequence THEN "True"
    ELSE IF self.destination_sequence > other.destination_sequence THEN "False"
    ELSE "TypeError"

EmailRouterRuleMatchPattern(sd, sn, rn, ai, bmin, bmax, wl) ==
    [sender_domain |-> sd, sender_name |-> sn, recipient_name |-> rn,
     attachment_included |-> ai, body_size_minimum |-> bmin,
     body_size_maximum |-> bmax, sender_ip_whitelist |-> wl]

EmailRouterRule(prio, pattern) == [match_priority |-> prio, match_pattern |-> pattern]

EmailRouterTargetConfig(name, prio, rules, dests) ==
    [target_name |-> name, target_priority |-> prio,
     router_rules |-> rules, destinations |-> dests]

\* a set of IP networks (the parsed sender_ip_whitelist)
PySet(s) == [type |-> "set", set |-> s]
PyList(l) == [type |-> "list", list |-> l]

\* an exception that leaves a call (its class, the head of its message and
\* the names the message lists), or no exception
NoError == [kind |-> "none"]
RaiseWith(kind, reason, detail) == [kind |-> kind, reason |-> reason, detail |-> detail]
Raise(kind, reason) == RaiseWith(kind, reason, <<>>)

\* EmailRouterRule.__eq__: unequal priorities answer False; with equal
\* priorities `self.match_pattern != other.match_pattern` runs
\* EmailRouterRuleMatchPattern.__ne__, whose body calls the undefined global
\* name __eq__ and raises NameError
RuleEq(r1, r2) ==
    IF r1.match_priority # r2.match_priority THEN "False" ELSE "NameError"

\* frozenset(rules_for_target): two list elements of equal hash (equal str(),
\* i.e. field-wise identical, the objects being distinct) are compared with
\* __eq__
FrozensetOfRules(rules) ==
    IF \E i, j \in 1..Len(rules) :
          i < j /\ rules[i] = rules[j] /\ RuleEq(rules[i], rules[j]) = "NameError"
    THEN [error |-> Raise("NameError", "name __eq__ is not defined"), set |-> {}]
    ELSE [error |-> NoError, set |-> {rules[i] : i \in 1..Len(rules)}]

\* ------------------------------------------------------- rules datastore
EmailRouterRulesDatastore(name, revision_datetime, revision_number, instance_type) ==
    [type |-> "datastore",
     datastore_name |-> name,
     revision_datetime |-> revision_datetime,
     revision_number |-> revision_number,
     instance_type |-> instance_type,
     router_rules_datastore_initialized |-> FALSE,
     router_config_by_target |-> {}]

target_count(ds) == Cardinality(ds.router_config_by_target)

\* the setter of router_rules_datastore_initialized: a value that is not a
\* bool raises TypeError, a bool is stored whatever the flag held
router_rules_datastore_initialized_setter(ds, value) ==
    IF value \notin BOOLEAN
    THEN [error |-> Raise("TypeError", "this is a boolean"), ds |-> ds]
    ELSE [error |-> NoError,
          ds |-> [ds EXCEPT !.router_rules_datastore_initialized = value]]

\* `target_config in self._router_config_by_target`: a stored tuple of equal
\* hash is compared field by field; the two frozensets of rules hold distinct
\* objects of equal hash, so a rule is compared with EmailRouterRule.__eq__
TargetInSet(target_config, stored) ==
    IF target_config \notin stored THEN "False"
    ELSE IF \E r \in target_config.router_rules : RuleEq(r, r) = "NameError"
         THEN "NameError"
         ELSE "True"

\* add_target_routing_config without the comparison of target priorities
add_target_routing_config_NoPriorityCheck(ds, target_config) ==
    LET stored == ds.router_config_by_target
        found == TargetInSet(target_config, stored)
    IN  IF found = "NameError"
        THEN [error |-> Raise("NameError", "name __eq__ is not defined"), ds |-> ds]
        ELSE IF found = "True"
        THEN [error |-> Raise("DuplicateTargetError", "Duplicate target config entry"),
              ds |-> ds]
        ELSE IF \E this_target \in stored :
                   target_config.target_name = this_target.target_name
        THEN [error |-> Raise("InitializationError", "Conflicting entry found for target"),
              ds |-> ds]
        ELSE [error |-> NoError,
              ds |-> [ds EXCEPT !.router_config_by_target = stored \cup {target_config}]]

\* add_target_routing_config: the exception raised, and the datastore after
add_target_routing_config(ds, target_config) ==
    LET stored == ds.router_config_by_target
        found == TargetInSet(target_config, stored)
    IN  IF found = "NameError"
        THEN [error |-> Raise("NameError", "name __eq__ is not defined"), ds |-> ds]
        ELSE IF found = "True"
        THEN [error |-> Raise("DuplicateTargetError", "Duplicate target config entry"),
              ds |-> ds]
        ELSE IF \E this_target \in stored :
                   \/ target_config.target_name = this_target.target_name
                   \/ target_config.target_priority = this_target.target_priority
        THEN [error |-> Raise("InitializationError", "Conflicting entry found for target"),
              ds |-> ds]
        ELSE [error |-> NoError,
              ds |-> [ds EXCEPT !.router_config_by_target = stored \cup {target_config}]]

\* --------------------------------------------------------- config loader
\* len(v) works for text and lists only; anything else raises TypeError
HasLen(v) == v.type \in {"str", "list"}
LenOf(v) == IF v.type = "str" THEN Len(v.str) ELSE Len(v.list)

Digits == <<"0", "1", "2", "3", "4", "5", "6", "7", "8", "9">>
IsDigit(c) == \E d \in 1..10 : Digits[d] = c
DigitValue(c) == (CHOOSE d \in 1..10 : Digits[d] = c) - 1
RECURSIVE DigitsValue(_, _)
DigitsValue(s, n) ==
    IF n = 0 THEN 0 ELSE 10 * DigitsValue(s, n - 1) + DigitValue(s[n])

\* float(v): a number is itself, a text of digits is the number it spells,
\* any other text raises ValueError and any other type TypeError
ToFloat(v) ==
    IF IsInt(v) THEN [error |-> NoError, value |-> v.int]
    ELSE IF IsStr(v)
    THEN IF Len(v.str) > 0 /\ \A k \in 1..Len(v.str) : IsDigit(v.str[k])
         THEN [error |-> NoError, value |-> DigitsValue(v.str, Len(v.str))]
         ELSE [error |-> Raise("ValueError", "could not convert string to float"),
               value |-> 0]
    ELSE [error |-> Raise("TypeError", "float() argument must be a string or a number"),
          value |-> 0]

\* `d[key] if key in d else None`: an empty text is kept
OptionalField_KeepsEmpty(v) ==
    IF v = NoKey THEN [error |-> NoError, value |-> PyNone]
    ELSE IF ~HasLen(v)
    THEN [error |-> Raise("TypeError", "object has no len()"), value |-> PyNone]
    ELSE [error |-> NoError, value |-> v]

\* `d[key] if key in d and len(d[key]) > 0 else None`
OptionalField(v) ==
    IF v = NoKey THEN [error |-> NoError, value |-> PyNone]
    ELSE IF ~HasLen(v)
    THEN [error |-> Raise("TypeError", "object has no len()"), value |-> PyNone]
    ELSE IF LenOf(v) > 0 THEN [error |-> NoError, value |-> v]
    ELSE [error |-> NoError, value |-> PyNone]

\* rules_parse_error_log: a dict from match_priority to its list of messages
LogAppend(log, prio, msg) ==
    IF prio \in DOMAIN log THEN [log EXCEPT ![prio] = Append(@, msg)]
    ELSE [p \in (DOMAIN log) \cup {prio} |-> IF p = prio THEN <<msg>> ELSE log[p]]

LogAppendIf(cond, log, prio, msg) == IF cond THEN LogAppend(log, prio, msg) ELSE log

EmptyLog == [p \in {} |-> <<>>]

\* the whitelist loop leaving at the first entry that does not parse
RECURSIVE ParseWhitelist_StopsAtBadEntry(_, _, _, _, _)
ParseWhitelist_StopsAtBadEntry(entries, i, prio, nets, log) ==
    IF i > Len(entries) THEN [set |-> nets, log |-> log]
    ELSE IF IsNetwork(entries[i])
    THEN ParseWhitelist_StopsAtBadEntry(entries, i + 1, prio, nets \cup {entries[i]}, log)
    ELSE [set |-> nets,
          log |-> LogAppend(log, prio, "Unable to parse entry as an IP network")]

\* the whitelist loop: the networks that parse, and a message per entry that
\* does not (parsing goes on after a bad entry)
RECURSIVE ParseWhitelist(_, _, _, _, _)
ParseWhitelist(entries, i, prio, nets, log) ==
    IF i > Len(entries) THEN [set |-> nets, log |-> log]
    ELSE IF IsNetwork(entries[i])
    THEN ParseWhitelist(entries, i + 1, prio, nets \cup {entries[i]}, log)
    ELSE ParseWhitelist(entries, i + 1, prio, nets,
                        LogAppend(log, prio, "Unable to parse entry as an IP network"))

\* one pass of the loop over match_rules: a fatal exception, or the error
\* log and the rule list after this rule
ParseRule(this_rule, log, rules_for_target) ==
    LET failed(e) == [error |-> e, log |-> log, rules |-> rules_for_target]
        prio_f == ToFloat(this_rule.match_priority)
        prio == prio_f.value
        sd == OptionalField(this_rule.sender_domain)
        sn == OptionalField(this_rule.sender_name)
        rn == OptionalField(this_rule.recipient_name)
        ai == OptionalField(this_rule.attachment_included)
        bmin == OptionalField(this_rule.body_size_minimum)
        bmax == OptionalField(this_rule.body_size_maximum)
        csv == OptionalField(this_rule.sender_ip_whitelist)
        fields == <<sd, sn, rn, ai, bmin, bmax, csv>>
    IN  IF this_rule.match_priority = NoKey
        THEN failed(Raise("InitializationError", "Parameter match_priority not found in rule"))
        ELSE IF prio_f.error # NoError THEN failed(prio_f.error)
        ELSE IF \E k \in 1..7 : fields[k].error # NoError
        THEN failed(fields[CHOOSE k \in 1..7 : fields[k].error # NoError].error)
        ELSE
        LET wl == IF csv.value = PyNone THEN [set |-> {}, log |-> log]
                  ELSE ParseWhitelist(csv.value.str, 1, prio, {}, log)
            sender_ip_whitelist_set == IF csv.value = PyNone THEN PyNone ELSE PySet(wl.set)
            log1 == LogAppendIf(csv.value # PyNone /\ wl.set = {}, wl.log, prio,
                        "sender_ip_whitelist field specified but no valid IP networks were found")
            log2 == LogAppendIf(sd.value = PyNone /\ sn.value = PyNone /\ rn.value = PyNone,
                        log1, prio,
                        "No sender domain, sender name or recipient pattern specified")
            log3 == LogAppendIf(bmin.value # PyNone /\ (~IsInt(bmin.value) \/ bmin.value.int < 0),
                        log2, prio, "body_size_minimum must be a nonnegative integer")
            log4 == LogAppendIf(bmax.value # PyNone /\ (~IsInt(bmax.value) \/ bmax.value.int < 0),
                        log3, prio, "body_size_maximum must be a nonnegative integer")
            ai_empty == ai.value # PyNone /\ ~IsBool(ai.value)
                          /\ IsStr(ai.value) /\ LenOf(ai.value) = 0
            attachment_included == IF ai_empty THEN PyNone ELSE ai.value
            log5 == LogAppendIf(ai.value # PyNone /\ ~IsBool(ai.value) /\ ~ai_empty,
                        log4, prio, "attachment_included must be a boolean if present")
            this_rule_error_count == IF prio \in DOMAIN log5 THEN Len(log5[prio]) ELSE 0
        IN  IF this_rule_error_count > 0
            THEN [error |-> NoError,
                  log |-> LogAppend(log5, prio, "Skipping creation of rule match pattern"),
                  rules |-> rules_for_target]
            ELSE [error |-> NoError,
                  log |-> log5,
                  rules |-> Append(rules_for_target,
                               EmailRouterRule(prio,
                                   EmailRouterRuleMatchPattern(sd.value, sn.value, rn.value,
                                       attachment_included, bmin.value, bmax.value,
                                       sender_ip_whitelist_set)))]

\* the loop over match_rules
RECURSIVE ParseRules(_, _, _, _)
\* after the pass for rule i: an exception leaves the loop, otherwise the
\* loop takes the next rule
ParseRulesAfter(match_rules, i, step) ==
    IF step.error # NoError THEN step
    ELSE ParseRules(match_rules, i + 1, step.log, step.rules)

ParseRules(match_rules, i, log, rules_for_target) ==
    IF i > Len(match_rules)
    THEN [error |-> NoError, log |-> log, rules |-> rules_for_target]
    ELSE ParseRulesAfter(match_rules, i, ParseRule(match_rules[i], log, rules_for_target))

\* the closed enumerations
EmailRouterDestinationType == {"DIRECT_PROCESSING"}
RouterInstanceType == {"BLUE", "GREEN"}

\* str.upper() on the words a document uses for enumeration members
Upper(w) == CASE w = "direct_processing" -> "DIRECT_PROCESSING"
              [] w = "Direct_Processing" -> "DIRECT_PROCESSING"
              [] w = "smtp" -> "SMTP"
              [] w = "blue" -> "BLUE"
              [] w = "Blue" -> "BLUE"
              [] w = "green" -> "GREEN"
              [] w = "red" -> "RED"
              [] OTHER -> w

\* the fixed sequence given to the one destination of a target
DestinationSequence == 10

\* the end of the loop body: the rule set is built and the target inserted
AddTarget(ds, tc_name, target_priority, destination_type, uri, rules) ==
    IF rules.error # NoError THEN [error |-> rules.error, ds |-> ds]
    ELSE add_target_routing_config(ds,
             EmailRouterTargetConfig(tc_name, target_priority, rules.set,
                 {EmailRouterDestinationConfig(destination_type,
                                               DestinationSequence, uri.value)}))

\* the body of the loop over the items of one router_rules entry, given
\* what float() made of target_priority, what the loop over match_rules
\* ended with and what was read for destination_uri: validates target
\* tc_name and inserts it; the exception raised and the datastore after
ValidateTarget(ds, tc_name, tc_router_rules, prio_f, parsed, uri) ==
    LET failed(e) == [error |-> e, ds |-> ds]
        required_elements == <<"match_rules", "destination", "target_priority">>
        required_but_not_found ==
            SelectSeq(required_elements, LAMBDA k : tc_router_rules[k] = NoKey)
        target_priority == prio_f.value
        match_rules == tc_router_rules.match_rules
        destination_as_string == tc_router_rules.destination
    IN  IF Len(required_but_not_found) > 0
        THEN failed(RaiseWith("InitializationError",
                              "instance data did not contain required element(s)",
                              required_but_not_found))
        ELSE IF prio_f.error.kind = "TypeError" THEN failed(prio_f.error)
        ELSE IF prio_f.error.kind = "ValueError" \/ target_priority <= 0
        THEN failed(Raise("InitializationError", "invalid target_priority value"))
        ELSE IF ~HasLen(match_rules)
        THEN failed(Raise("TypeError", "object has no len()"))
        ELSE IF LenOf(match_rules) < 1
        THEN failed(Raise("InitializationError", "match_rules contains no actual rules"))
        ELSE IF parsed.error # NoError THEN failed(parsed.error)
        ELSE IF DOMAIN parsed.log # {}
        THEN failed(RaiseWith("InitializationError", "rule(s) had following errors",
                              parsed.log))
        ELSE IF ~HasLen(destination_as_string)
        THEN failed(Raise("TypeError", "object has no len()"))
        ELSE IF LenOf(destination_as_string) = 0
        THEN failed(Raise("InitializationError", "destination for target config is null"))
        ELSE IF Upper(destination_as_string.str) \notin EmailRouterDestinationType
        THEN failed(Raise("InitializationError", "destination for target config is not valid"))
        ELSE IF uri.error # NoError THEN failed(uri.error)
        ELSE AddTarget(ds, tc_name, target_priority, Upper(destination_as_string.str),
                       uri, FrozensetOfRules(parsed.rules))

\* the body of the loop over the items of one router_rules entry
ProcessTarget(ds, tc_name, tc_router_rules) ==
    ValidateTarget(ds, tc_name, tc_router_rules,
                   ToFloat(tc_router_rules.target_priority),
                   ParseRules(tc_router_rules.match_rules.list, 1, EmptyLog, <<>>),
                   OptionalField(tc_router_rules.destination_uri))

\* `for tc_name, tc_router_rules in this_target_or_client.items()`: the items
\* of one entry in order, stopping at the first exception
RECURSIVE ProcessEntry(_, _, _)
\* after the pass for item i
ProcessEntryAfter(items, i, step) ==
    IF step.error # NoError THEN step
    ELSE ProcessEntry(step.ds, items, i + 1)

ProcessEntry(ds, items, i) ==
    IF i > Len(items) THEN [error |-> NoError, ds |-> ds]
    ELSE ProcessEntryAfter(items, i,
             ProcessTarget(ds, items[i].tc_name, items[i].tc_router_rules))

\* offset of the process's local timezone from UTC, in minutes
LocalOffset == 60

\* the text of a timestamp that dateutil parses: its wall-clock minutes and
\* its UTC offset (PyNone for a naive timestamp)
DateText(wall, utcoffset) == [type |-> "str", wall |-> wall, utcoffset |-> utcoffset]
Parses(v) == "wall" \in DOMAIN v

\* localize() of a naive timestamp in the local zone, astimezone(UTC) of an
\* aware one: the instant, in minutes UTC
AsUtc(dt) == IF dt.utcoffset = PyNone THEN dt.wall - LocalOffset
             ELSE dt.wall - dt.utcoffset.int

\* _initialize_from_jsonfile up to the loop over router_rules, raising at the
\* first required attribute found missing instead of collecting them
LoadTop_FailFast(json_data, configured) ==
    LET required_top_level_attributes ==
            <<"instance_type", "name", "revision_datetime", "revision_number", "router_rules">>
        missing_but_required ==
            SelectSeq(required_top_level_attributes, LAMBDA k : json_data[k] = NoKey)
        failed(e) == [error |-> e, ds |-> PyNone, count |-> 0]
        router_db_name == json_data.name
        router_db_revision_number == json_data.revision_number
        instance_type == json_data.instance_type
        ds == EmailRouterRulesDatastore(router_db_name.str,
                                        AsUtc(json_data.revision_datetime),
                                        router_db_revision_number.int,
                                        Upper(instance_type.str))
        target_or_client_count == LenOf(json_data.router_rules)
    IN  IF Len(missing_but_required) > 0
        THEN failed(RaiseWith("InitializationError",
                              "source JSON missing these required attribute(s)",
                              SubSeq(missing_but_required, 1, 1)))
        ELSE IF ~IsStr(router_db_name) \/ Len(router_db_name.str) < 3
        THEN failed(Raise("InitializationError", "name must be a string of at least 3 chars"))
        ELSE IF ~IsInt(router_db_revision_number) \/ router_db_revision_number.int < 0
        THEN failed(Raise("InitializationError", "revision_number must be a non-negative integer"))
        ELSE IF ~Parses(json_data.revision_datetime)
        THEN failed(Raise("InitializationError", "invalid revision_datetime parameter"))
        ELSE IF ~IsStr(instance_type)
        THEN failed(Raise("AttributeError", "object has no attribute upper"))
        ELSE IF Upper(instance_type.str) \notin RouterInstanceType
        THEN failed(Raise("InitializationError", "not a valid instance type"))
        ELSE IF Upper(instance_type.str) # configured
        THEN failed(Raise("InitializationError", "JSON is for a different router instance type"))
        ELSE IF target_or_client_count < 1
        THEN [error |-> Raise("InitializationError", "no target / client entries in JSON data"),
              ds |-> ds, count |-> 0]
        ELSE [error |-> NoError, ds |-> ds, count |-> target_or_client_count]

\* _initialize_from_jsonfile up to the loop over router_rules: the exception
\* raised, the datastore created (PyNone when the failure comes first) and
\* the number of entries the loop will visit
LoadTop(json_data, configured) ==
    LET required_top_level_attributes ==
            <<"instance_type", "name", "revision_datetime", "revision_number", "router_rules">>
        missing_but_required ==
            SelectSeq(required_top_level_attributes, LAMBDA k : json_data[k] = NoKey)
        failed(e) == [error |-> e, ds |-> PyNone, count |-> 0]
        router_db_name == json_data.name
        router_db_revision_number == json_data.revision_number
        instance_type == json_data.instance_type
        ds == EmailRouterRulesDatastore(router_db_name.str,
                                        AsUtc(json_data.revision_datetime),
                                        router_db_revision_number.int,
                                        Upper(instance_type.str))
        target_or_client_count == LenOf(json_data.router_rules)
    IN  IF Len(missing_but_required) > 0
        THEN failed(RaiseWith("InitializationError",
                              "source JSON missing these required attribute(s)",
                              missing_but_required))
        ELSE IF ~IsStr(router_db_name) \/ Len(router_db_name.str) < 3
        THEN failed(Raise("InitializationError", "name must be a string of at least 3 chars"))
        ELSE IF ~IsInt(router_db_revision_number) \/ router_db_revision_number.int < 0
        THEN failed(Raise("InitializationError", "revision_number must be a non-negative integer"))
        ELSE IF ~Parses(json_data.revision_datetime)
        THEN failed(Raise("InitializationError", "invalid revision_datetime parameter"))
        ELSE IF ~IsStr(instance_type)
        THEN failed(Raise("AttributeError", "object has no attribute upper"))
        ELSE IF Upper(instance_type.str) \notin RouterInstanceType
        THEN failed(Raise("InitializationError", "not a valid instance type"))
        ELSE IF Upper(instance_type.str) # configured
        THEN failed(Raise("InitializationError", "JSON is for a different router instance type"))
        ELSE IF target_or_client_count < 1
        THEN [error |-> Raise("InitializationError", "no target / client entries in JSON data"),
              ds |-> ds, count |-> 0]
        ELSE [error |-> NoError, ds |-> ds, count |-> target_or_client_count]

\* -------------------------------------------------------- matching engine
\* an inbound match request
Request(address_to_collection, address_from, sender_ip) ==
    [address_to_collection |-> address_to_collection,
     address_from |-> address_from,
     sender_ip |-> sender_ip]

\* a line of matched_info_log: what was checked, for which target, and the
\* rule priority or recipient number it concerns
Line(text, target_name, n) == [text |-> text, target |-> target_name, n |-> n]

EmailRouterMatchResult(matched_target_name, destinations) ==
    [matched_target_name |-> matched_target_name, destinations |-> destinations]

\* EmailRouterTargetConfig.__lt__ / EmailRouterRule.__lt__ inside sorted():
\* equal priorities raise NotImplementedError, otherwise ascending order
RECURSIVE AscendingTargets(_)
AscendingTargets(S) ==
    IF S = {} THEN <<>>
    ELSE LET least == CHOOSE t \in S : \A u \in S : t.target_priority <= u.target_priority
         IN  <<least>> \o AscendingTargets(S \ {least})

SortedTargets(S) ==
    IF \E t, u \in S : t # u /\ t.target_priority = u.target_priority
    THEN [error |-> Raise("NotImplementedError", "identical priority value - not supported"),
          list |-> <<>>]
    ELSE [error |-> NoError, list |-> AscendingTargets(S)]

RECURSIVE AscendingRules(_)
AscendingRules(S) ==
    IF S = {} THEN <<>>
    ELSE LET least == CHOOSE r \in S : \A q \in S : r.match_priority <= q.match_priority
         IN  <<least>> \o AscendingRules(S \ {least})

SortedRules(S) ==
    IF \E r, q \in S : r # q /\ r.match_priority = q.match_priority
    THEN [error |-> Raise("NotImplementedError", "identical priority value - not supported"),
          list |-> <<>>]
    ELSE [error |-> NoError, list |-> AscendingRules(S)]

\* sorted() at work on a list, the order in which a set hands out its
\* members: each member in turn is moved left past the members it is less
\* than.  `<` on two members (the __lt__ of targets and of rules, on the
\* priority named by key) answers by the priorities and raises
\* NotImplementedError when they are equal
RECURSIVE Insert(_, _, _)
\* after x went into the members before the last one
InsertAfter(rest, last) ==
    IF rest.error # NoError THEN rest
    ELSE [error |-> NoError, list |-> Append(rest.list, last)]

Insert(l, x, key) ==
    IF l = <<>> THEN [error |-> NoError, list |-> <<x>>]
    ELSE IF x[key] < l[Len(l)][key]
    THEN InsertAfter(Insert(SubSeq(l, 1, Len(l) - 1), x, key), l[Len(l)])
    ELSE IF x[key] > l[Len(l)][key]
    THEN [error |-> NoError, list |-> Append(l, x)]
    ELSE [error |-> Raise("NotImplementedError", "identical priority value - not supported"),
          list |-> <<>>]

\* sorted() with a `<` that answers False on equal priorities instead of
\* raising: members of equal priority stay in the order the set handed them
\* out
RECURSIVE Sorted_TiesKeepOrder(_, _, _, _)
Sorted_TiesKeepOrder(e, i, key, done) ==
    IF done.error # NoError \/ i > Len(e) THEN done
    ELSE Sorted_TiesKeepOrder(e, i + 1, key,
             IF \E k \in 1..Len(done.list) : done.list[k][key] = e[i][key]
             THEN [error |-> NoError, list |-> Append(done.list, e[i])]
             ELSE Insert(done.list, e[i], key))

\* sorted(e): the members of e from position i on go into done, the sorted
\* list so far; an exception of `<` ends it
RECURSIVE Sorted(_, _, _, _)
Sorted(e, i, key, done) ==
    IF done.error # NoError \/ i > Len(e) THEN done
    ELSE Sorted(e, i + 1, key, Insert(done.list, e[i], key))

\* the orders in which a set may hand out its members
Enumerations(S) ==
    {e \in [1..Cardinality(S) -> S] : \A i, j \in 1..Cardinality(S) : i # j => e[i] # e[j]}

\* match 1: the loop over the recipients; it stops at the first recipient
\* whose name matches and raises on a recipient that is not name@domain
RECURSIVE ScanRecipients(_, _, _, _, _)
ScanRecipients(recipient_name, address_to_collection, i, target_name, log) ==
    IF i > Len(address_to_collection) THEN [error |-> NoError, log |-> log]
    ELSE LET log1 == Append(log, Line("Checking recipient", target_name, i))
             parts == Split(address_to_collection[i])
         IN  IF Len(parts) # 2
             THEN [error |-> Raise("InputDataError", "Input recipient is invalid"),
                   log |-> log1]
             ELSE IF ~Compiles(recipient_name)
             THEN [error |-> Raise("re.error", "missing ), unterminated subpattern"),
                   log |-> log1]
             ELSE IF ReSearch(recipient_name, parts[1])
             THEN [error |-> NoError,
                   log |-> Append(log1, Line("passed recipient name check", target_name, i))]
             ELSE ScanRecipients(recipient_name, address_to_collection, i + 1, target_name,
                      Append(log1, Line("match failed on recipient", target_name, i)))

\* the checks of one rule, given the log after the rule was announced (log0)
\* and what the scan of the recipients ended with.  flow says how the body of
\* the loop over the rules ends: "raise" (error is raised), "break" (the loop
\* over the rules of this target is left) or "appended" (the target was
\* appended to matched_targets and the loop goes on with the next rule)
CheckRule(this_target, this_rule, req, log0, scan) ==
    LET name == this_target.target_name
        pattern == this_rule.match_pattern
        from_parts == Split(req.address_from)
        message_sender_name == from_parts[1]
        message_sender_domain == from_parts[2]
        raise(e, l) == [flow |-> "raise", error |-> e, log |-> l]
        break(l) == [flow |-> "break", error |-> NoError, log |-> l]
        log1 == scan.log
        log2 == IF pattern.sender_domain = PyNone THEN log1
                ELSE Append(log1, Line("passed sender domain check", name, 0))
        log3 == IF pattern.sender_name = PyNone THEN log2
                ELSE Append(log2, Line("passed sender name check", name, 0))
        log4 == IF pattern.sender_ip_whitelist = PyNone THEN log3
                ELSE Append(log3, Line("passed sender ip check against whitelist", name, 0))
    IN  IF Len(from_parts) # 2
        THEN raise(Raise("InputDataError", "Input from_address invalid"), log0)
        ELSE IF scan.error # NoError THEN raise(scan.error, log1)
        ELSE IF pattern.sender_domain # PyNone /\ ~Compiles(pattern.sender_domain.str)
        THEN raise(Raise("re.error", "missing ), unterminated subpattern"), log1)
        ELSE IF pattern.sender_domain # PyNone
                /\ ~ReSearch(pattern.sender_domain.str, message_sender_domain)
        THEN break(Append(log1, Line("match failed on sender domain check", name, 0)))
        ELSE IF pattern.sender_name # PyNone /\ ~Compiles(pattern.sender_name.str)
        THEN raise(Raise("re.error", "missing ), unterminated subpattern"), log2)
        ELSE IF pattern.sender_name # PyNone
                /\ ~ReSearch(pattern.sender_name.str, message_sender_name)
        THEN break(Append(log2, Line("match failed on sender name check", name, 0)))
        ELSE IF pattern.sender_ip_whitelist # PyNone /\ ~IsAddress(req.sender_ip)
        THEN raise(Raise("InputDataError", "Input sender_ip invalid"), log3)
        ELSE IF pattern.sender_ip_whitelist # PyNone
                /\ ~\E this_ip_network \in pattern.sender_ip_whitelist.set :
                        InNetwork(req.sender_ip, this_ip_network)
        THEN break(Append(log3, Line("match failed on sender ip check", name, 0)))
        ELSE IF pattern.attachment_included # PyNone
        THEN raise(Raise("NotImplementedError", "attachment_included"), log4)
        ELSE IF pattern.body_size_minimum # PyNone
        THEN raise(Raise("NotImplementedError", "body_size_minimum"), log4)
        ELSE IF pattern.body_size_maximum # PyNone
        THEN raise(Raise("NotImplementedError", "body_size_maximum"), log4)
        ELSE [flow |-> "appended", error |-> NoError, log |-> log4]

\* the body of the loop over the rules of a target: the rule is announced
\* in the log and its checks are made; the recipients are scanned only when
\* the pattern has a recipient_name
EvalRule(this_target, this_rule, req, log) ==
    LET log0 == Append(log, Line("Checking rule at priority", this_target.target_name,
                                 this_rule.match_priority))
    IN  CheckRule(this_target, this_rule, req, log0,
            IF this_rule.match_pattern.recipient_name = PyNone
            THEN [error |-> NoError, log |-> log0]
            ELSE ScanRecipients(this_rule.match_pattern.recipient_name.str,
                                req.address_to_collection, 1,
                                this_target.target_name, log0))

\* the loop over the sorted rules of one target
RECURSIVE EvalRules(_, _, _, _, _, _)
\* after the body for rule j, with a failed check taken as the end of that
\* check only: the target is appended and the next rule taken
EvalRulesAfter_AppendsAfterFailedCheck(this_target, rules, j, req, matched_targets, step) ==
    IF step.flow = "raise"
    THEN [error |-> step.error, log |-> step.log, matched_targets |-> matched_targets]
    ELSE EvalRules(this_target, rules, j + 1, req, step.log,
                   Append(matched_targets, this_target))

\* after the body for rule j
EvalRulesAfter(this_target, rules, j, req, matched_targets, step) ==
    IF step.flow = "raise"
    THEN [error |-> step.error, log |-> step.log, matched_targets |-> matched_targets]
    ELSE IF step.flow = "break"
    THEN [error |-> NoError, log |-> step.log, matched_targets |-> matched_targets]
    ELSE EvalRules(this_target, rules, j + 1, req, step.log,
                   Append(matched_targets, this_target))

EvalRules(this_target, rules, j, req, log, matched_targets) ==
    IF j > Len(rules)
    THEN [error |-> NoError, log |-> log, matched_targets |-> matched_targets]
    ELSE EvalRulesAfter(this_target, rules, j, req, matched_targets,
                        EvalRule(this_target, rules[j], req, log))

\* the loop over the sorted targets
RECURSIVE EvalTargets(_, _, _, _, _)
\* after the rules of target i
EvalTargetsAfter(targets, i, req, walk) ==
    IF walk.error # NoError THEN walk
    ELSE EvalTargets(targets, i + 1, req, walk.log, walk.matched_targets)

EvalTargets(targets, i, req, log, matched_targets) ==
    IF i > Len(targets)
    THEN [error |-> NoError, log |-> log, matched_targets |-> matched_targets]
    ELSE LET this_target == targets[i]
             log1 == Append(log, Line("Evaluating match for target",
                                      this_target.target_name, this_target.target_priority))
             rules == SortedRules(this_target.router_rules)
         IN  IF rules.error # NoError
             THEN [error |-> rules.error, log |-> log1, matched_targets |-> matched_targets]
             ELSE EvalTargetsAfter(targets, i, req,
                      EvalRules(this_target, rules.list, 1, req, log1, matched_targets))

\* what a call of match_inbound_email ends with: the exception raised or
\* "Result", the returned matched_target_results, and matched_info_log as it
\* stood when the call ended
Outcome(kind, results, log) ==
    [kind |-> kind, matched_target_results |-> results, matched_info_log |-> log]

\* the end of match_inbound_email without the test for an empty match list
MatchResult_NoEmptyTest(matched_targets, log) ==
    Outcome("Result",
            [k \in 1..Len(matched_targets) |->
                EmailRouterMatchResult(matched_targets[k].target_name,
                                       matched_targets[k].destinations)],
            log)

\* the end of match_inbound_email, after the loops
MatchResult(matched_targets, log) ==
    IF Len(matched_targets) = 0
    THEN Outcome("MatchNotFoundError", <<>>, log)
    ELSE Outcome("Result",
                 [k \in 1..Len(matched_targets) |->
                     EmailRouterMatchResult(matched_targets[k].target_name,
                                            matched_targets[k].destinations)],
                 log)

\* the end of match_inbound_email: an exception raised inside the loops, or
\* the test of matched_targets
MatchEnd(walk) ==
    IF walk.error # NoError THEN Outcome(walk.error.kind, <<>>, walk.log)
    ELSE MatchResult(walk.matched_targets, walk.log)

\* match_inbound_email with the sender address split before the activation
\* test
match_inbound_email_ValidatesFirst(ds, req) ==
    IF Len(Split(req.address_from)) # 2
    THEN Outcome("InputDataError", <<>>, <<>>)
    ELSE IF ~ds.router_rules_datastore_initialized
    THEN Outcome("ConfigNotActiveError", <<>>, <<>>)
    ELSE LET targets == SortedTargets(ds.router_config_by_target)
         IN  IF targets.error # NoError THEN Outcome(targets.error.kind, <<>>, <<>>)
             ELSE MatchEnd(EvalTargets(targets.list, 1, req, <<>>, <<>>))

match_inbound_email(ds, req) ==
    IF ~ds.router_rules_datastore_initialized
    THEN Outcome("ConfigNotActiveError", <<>>, <<>>)
    ELSE LET targets == SortedTargets(ds.router_config_by_target)
         IN  IF targets.error # NoError THEN Outcome(targets.error.kind, <<>>, <<>>)
             ELSE MatchEnd(EvalTargets(targets.list, 1, req, <<>>, <<>>))

\* ------------------------------------------------------------------ inputs
\* text of the model
a_x == <<"a", "@", "x">>
B_y == <<"B", "@", "y">>
b_y == <<"b", "@", "y">>
no_at == <<"a", "x">>
two_at == <<"a", "@", "x", "@", "y">>

Senders == {a_x, B_y, no_at, two_at}
RecipientAddresses == {a_x, b_y, no_at}
\* 7 is the broadcast address of network 5/2 (4..7) and outside 12/3
\* (12..13), 8 lies in neither, 99 is no address
SenderIps == {7, 8, 99}

RECURSIVE SeqsUpTo(_, _)
SeqsUpTo(S, n) ==
    IF n = 0 THEN {<<>>}
    ELSE LET shorter == SeqsUpTo(S, n - 1)
         IN  shorter \cup {Append(q, e) : q \in {q \in shorter : Len(q) = n - 1}, e \in S}

Requests ==
    {Request(to, from, ip) : to \in SeqsUpTo(RecipientAddresses, MaxRecipients),
                             from \in Senders, ip \in SenderIps}

\* a match_rules entry of a document
RuleDoc(prio, sd, sn, rn, wl) ==
    [match_priority |-> prio, sender_domain |-> sd, sender_name |-> sn,
     recipient_name |-> rn, attachment_included |-> NoKey,
     body_size_minimum |-> NoKey, body_size_maximum |-> NoKey,
     sender_ip_whitelist |-> wl]

P_x == PyStr(<<"x">>)
P_y == PyStr(<<"y">>)
P_a == PyStr(<<"a">>)
P_b == PyStr(<<"b">>)
Empty == PyStr(<<>>)
TwoNets == PyStr(<<IPNetwork(5, 2), IPNetwork(12, 3)>>)

\* match_rules lists that pass validation
ValidRuleLists ==
    { <<RuleDoc(PyInt(1), P_x, NoKey, NoKey, NoKey)>>,
      <<RuleDoc(PyInt(1), P_y, NoKey, NoKey, NoKey), RuleDoc(PyInt(2), NoKey, P_a, NoKey, NoKey)>>,
      <<RuleDoc(PyInt(2), P_x, NoKey, NoKey, NoKey), RuleDoc(PyInt(1), NoKey, P_a, Empty, NoKey)>>,
      <<RuleDoc(PyInt(1), NoKey, NoKey, P_b, NoKey)>>,
      <<RuleDoc(PyInt(1), P_x, NoKey, P_b, NoKey)>>,
      <<RuleDoc(PyInt(1), P_x, NoKey, NoKey, NoKey), RuleDoc(PyInt(1), NoKey, P_a, NoKey, NoKey)>>,
      <<RuleDoc(PyInt(1), P_x, NoKey, NoKey, TwoNets), RuleDoc(PyStr(<<"2">>), NoKey, P_a, NoKey, NoKey)>> }

\* match_rules lists that validation or set construction refuses
InvalidRuleLists ==
    { <<>>,
      <<RuleDoc(PyInt(1), P_x, NoKey, NoKey, NoKey), RuleDoc(PyInt(1), P_x, NoKey, NoKey, NoKey)>>,
      <<RuleDoc(PyInt(1), Empty, NoKey, NoKey, NoKey)>>,
      <<RuleDoc(PyInt(1), P_x, NoKey, NoKey, NoKey), RuleDoc(PyInt(2), NoKey, NoKey, NoKey, NoKey)>>,
      <<RuleDoc(PyInt(1), NoKey, NoKey, NoKey, NoKey),
        RuleDoc(PyInt(2), Empty, NoKey, NoKey, PyStr(<<BadAddr>>))>>,
      <<RuleDoc(PyInt(1), NoKey, NoKey, NoKey, NoKey),
        RuleDoc(PyStr(<<"x">>), P_x, NoKey, NoKey, NoKey)>>,
      <<RuleDoc(NoKey, P_x, NoKey, NoKey, NoKey)>>,
      <<RuleDoc(PyStr(<<"x">>), P_x, NoKey, NoKey, NoKey)>>,
      <<RuleDoc(PyInt(1), P_x, NoKey, NoKey, PyStr(<<BadAddr, IPNetwork(4, 2)>>))>>,
      <<RuleDoc(PyInt(1), P_x, NoKey, NoKey, PyStr(<<BadAddr>>))>>,
      <<RuleDoc(PyInt(2), P_x, NoKey, NoKey, PyStr(<<BadAddr, IPNetwork(4, 2), BadAddr>>))>>,
      <<[RuleDoc(PyInt(1), P_x, NoKey, NoKey, NoKey) EXCEPT !.attachment_included = PyBool(TRUE)]>>,
      <<[RuleDoc(PyInt(1), P_x, NoKey, NoKey, NoKey) EXCEPT !.attachment_included = PyStr(<<"y">>)]>>,
      <<[RuleDoc(PyInt(1), P_x, NoKey, NoKey, NoKey) EXCEPT !.body_size_minimum = PyInt(5)]>>,
      <<[RuleDoc(PyInt(1), P_x, NoKey, NoKey, NoKey) EXCEPT !.body_size_maximum = PyStr(<<"5">>)]>> }

\* the value of one key of a router_rules entry
TargetDoc(match_rules, destination, target_priority, destination_uri) ==
    [match_rules |-> match_rules, destination |-> destination,
     target_priority |-> target_priority, destination_uri |-> destination_uri]

Direct == PyStr("direct_processing")
FirstValid == PyList(<<RuleDoc(PyInt(1), P_x, NoKey, NoKey, NoKey)>>)

TargetDocs ==
    {TargetDoc(PyList(l), Direct, PyInt(p), NoKey) : l \in ValidRuleLists, p \in {1, 2}}
    \cup {TargetDoc(PyList(<<RuleDoc(PyInt(1), PyStr(<<"(">>), NoKey, NoKey, NoKey)>>),
                    Direct, PyInt(1), NoKey)}
    \cup {TargetDoc(PyList(l), Direct, PyInt(1), NoKey) : l \in InvalidRuleLists}
    \cup { TargetDoc(FirstValid, PyStr("Direct_Processing"), PyStr(<<"2">>), PyStr("queue")),
           TargetDoc(FirstValid, Direct, PyInt(1), PyStr("")),
           TargetDoc(FirstValid, Direct, PyInt(0), NoKey),
           TargetDoc(FirstValid, Direct, PyStr(<<"x">>), NoKey),
           TargetDoc(FirstValid, Direct, NoKey, NoKey),
           TargetDoc(FirstValid, Direct, PyNone, NoKey),
           TargetDoc(NoKey, NoKey, PyInt(1), NoKey),
           TargetDoc(FirstValid, PyStr(""), PyInt(1), NoKey),
           TargetDoc(FirstValid, PyStr("smtp"), PyInt(1), NoKey) }

TargetNames == {"t1", "t2"}

Item(tc_name, tc_router_rules) == [tc_name |-> tc_name, tc_router_rules |-> tc_router_rules]

\* the entries of router_rules: the empty map, the single-key maps, and a
\* two-key map
Entries ==
    {<<>>}
    \cup {<<Item(n, tc)>> : n \in TargetNames, tc \in TargetDocs}
    \cup { <<Item("t1", TargetDoc(FirstValid, Direct, PyInt(1), NoKey)),
             Item("t2", TargetDoc(FirstValid, Direct, PyInt(1), NoKey))>> }

Naive == DateText(660, PyNone)
Aware == DateText(420, PyInt(0 - 180))

\* the top level of a document; the content of the n entries of router_rules
\* is drawn when the loop reaches them
TopDocs ==
    [name : {NoKey, PyStr("ab"), PyStr("abc"), PyInt(5)},
     revision_number : {NoKey, PyInt(0 - 1), PyInt(7), PyStr(<<"7">>)},
     revision_datetime : {NoKey, PyStr("soon"), Naive, Aware},
     instance_type : {NoKey, PyStr("blue"), PyStr("GREEN"), PyStr("red"), PyInt(5)},
     router_rules : {NoKey} \cup {PyList([k \in 1..n |-> "entry"]) : n \in 0..MaxEntries}]

\* the identity the process is started with
ConfiguredInstanceTypes == RouterInstanceType

\* ------------------------------------------------------------------- state
VARIABLES
    json_config_source,      \* what json.load reads from the file at hand, PyNone
                             \* while the file is not chosen
    router_instance_type,    \* EmailRouter._router_instance_type
    router_rules_datastore,  \* EmailRouter._router_rules_datastore
    pc,                      \* where the loader stands
    entries_left,            \* entries of router_rules the loop has not visited
    load_error,              \* the exception that ended the load
    match_request,           \* the request of the call of match_inbound_email just made
    match_outcome,           \* and what that call ended with
    calls                    \* the locals of the calls of match_inbound_email that
                             \* request handlers running side by side are in

vars == <<json_config_source, router_instance_type, router_rules_datastore, pc, entries_left,
          load_error, match_request, match_outcome, calls>>

NoRequest == [type |-> "none"]
NoOutcome == Outcome("none", <<>>, <<>>)

\* the request handlers that may run side by side
CallIds == {1, 2}

\* the locals of match_inbound_email in one call: where the call stands, its
\* arguments, the sorted targets and the position in them, the sorted rules
\* of the target at hand and the position in them, matched_info_log,
\* matched_targets, and what the call ended with
Locals(at, req, targets, i, rules, j, matched_info_log, matched_targets, outcome) ==
    [at |-> at, req |-> req, targets |-> targets, i |-> i, rules |-> rules, j |-> j,
     matched_info_log |-> matched_info_log, matched_targets |-> matched_targets,
     outcome |-> outcome]
Idle == Locals("idle", NoRequest, <<>>, 0, <<>>, 0, <<>>, <<>>, NoOutcome)
Done(req, outcome) == Locals("done", req, <<>>, 0, <<>>, 0, <<>>, <<>>, outcome)

Init ==
    /\ json_config_source = PyNone
    /\ router_instance_type \in ConfiguredInstanceTypes
    /\ router_rules_datastore = PyNone
    /\ pc = "new"
    /\ entries_left = 0
    /\ load_error = NoError
    /\ match_request = NoRequest
    /\ match_outcome = NoOutcome
    /\ calls = [c \in CallIds |-> Idle]

\* EmailRouter.__init__ reaches _initialize_from_jsonfile, which reads the
\* top level of the document and creates the datastore
LoadBegin ==
    /\ pc = "new"
    /\ \E json_data \in TopDocs :
          LET top == LoadTop(json_data, router_instance_type)
          IN  /\ router_rules_datastore' = top.ds
              /\ load_error' = top.error
              /\ entries_left' = top.count
              /\ pc' = IF top.error = NoError THEN "loading" ELSE "failed"
    /\ UNCHANGED <<json_config_source, calls, router_instance_type, match_request, match_outcome>>

\* the loop over router_rules with the activation done after every entry
\* instead of after the loop
LoadEntry_ActivatesEarly ==
    /\ pc = "loading"
    /\ match_request = NoRequest
    /\ entries_left > 0
    /\ \E this_target_or_client \in Entries :
          \E step \in {ProcessEntry(router_rules_datastore, this_target_or_client, 1)} :
              /\ router_rules_datastore' =
                    IF step.error = NoError
                    THEN [step.ds EXCEPT !.router_rules_datastore_initialized = TRUE]
                    ELSE step.ds
              /\ load_error' = step.error
              /\ pc' = IF step.error = NoError THEN "loading" ELSE "failed"
              \* an exception leaves the loop: no entry is visited after it
              /\ entries_left' = IF step.error = NoError THEN entries_left - 1 ELSE 0
    /\ UNCHANGED <<json_config_source, calls, router_instance_type, match_request, match_outcome>>

\* one pass of the loop over router_rules
LoadEntry ==
    /\ pc = "loading"
    /\ match_request = NoRequest
    /\ entries_left > 0
    /\ \E this_target_or_client \in Entries :
          \E step \in {ProcessEntry(router_rules_datastore, this_target_or_client, 1)} :
              /\ router_rules_datastore' = step.ds
              /\ load_error' = step.error
              /\ pc' = IF step.error = NoError THEN "loading" ELSE "failed"
              \* an exception leaves the loop: no entry is visited after it
              /\ entries_left' = IF step.error = NoError THEN entries_left - 1 ELSE 0
    /\ UNCHANGED <<json_config_source, calls, router_instance_type, match_request, match_outcome>>

\* the activation reached while the loop over router_rules still has entries
\* to visit
Activate_InsideLoop ==
    /\ pc = "loading"
    /\ match_request = NoRequest
    /\ router_rules_datastore' =
          [router_rules_datastore EXCEPT !.router_rules_datastore_initialized = TRUE]
    /\ pc' = "active"
    /\ UNCHANGED <<json_config_source, calls, router_instance_type, entries_left, load_error,
                   match_request, match_outcome>>

\* the end of _initialize_from_jsonfile: the loop is over, the datastore is
\* activated
Activate ==
    /\ pc = "loading"
    /\ match_request = NoRequest
    /\ entries_left = 0
    /\ router_rules_datastore' =
          [router_rules_datastore EXCEPT !.router_rules_datastore_initialized = TRUE]
    /\ pc' = "active"
    /\ UNCHANGED <<json_config_source, calls, router_instance_type, entries_left, load_error,
                   match_request, match_outcome>>

\* a call of match_inbound_email that de-activates the datastore when it ends
\* with an exception
Match_DeactivatesOnError ==
    /\ pc \in {"loading", "active"}
    /\ match_request = NoRequest
    /\ \E req \in Requests :
          \E outcome \in {match_inbound_email(router_rules_datastore, req)} :
              /\ match_request' = req
              /\ match_outcome' = outcome
              /\ router_rules_datastore' =
                    IF outcome.kind = "Result" THEN router_rules_datastore
                    ELSE [router_rules_datastore EXCEPT
                              !.router_rules_datastore_initialized = FALSE]
    /\ UNCHANGED <<json_config_source, calls, router_instance_type, pc, entries_left, load_error>>

\* a call of match_inbound_email on the router's datastore, activated or as
\* the loader has it after any number of entries; a load that failed has
\* ended the process (app.py returns an exit code), so no call follows it.
\* The process is single-threaded, so nothing else runs until the caller has
\* taken the outcome
Match ==
    /\ pc \in {"loading", "active"}
    /\ match_request = NoRequest
    /\ \E req \in Requests :
          /\ match_request' = req
          /\ match_outcome' = match_inbound_email(router_rules_datastore, req)
    /\ UNCHANGED <<json_config_source, calls, router_instance_type, router_rules_datastore, pc, entries_left, load_error>>

\* the caller of match_inbound_email takes the outcome and returns
Respond ==
    /\ match_request # NoRequest
    /\ match_request' = NoRequest
    /\ match_outcome' = NoOutcome
    /\ UNCHANGED <<json_config_source, calls, router_instance_type, router_rules_datastore, pc, entries_left, load_error>>

Next == LoadBegin \/ LoadEntry \/ Activate \/ Match \/ Respond

Spec == Init /\ [][Next]_vars

\* ------------------------------------------ calls running side by side
\* The web application serves each POST in its own thread, so calls of
\* match_inbound_email on the one router interleave.  A call is cut into the
\* steps between which another thread may run: the entry (activation test
\* and sort of the targets), the head of the loop over the targets (log line
\* and sort of the rules), one body of the loop over the rules, and the end.

\* the requests the handlers are given
ConcurrentRequests ==
    { Request(<<b_y>>, a_x, 7),
      Request(<<>>, B_y, 8),
      Request(<<a_x, b_y>>, a_x, 12),
      Request(<<no_at>>, a_x, 8),
      Request(<<>>, no_at, 7),
      Request(<<b_y>>, a_x, 99) }

OtherLocals == <<json_config_source, router_instance_type, router_rules_datastore, pc, entries_left,
                 load_error, match_request, match_outcome>>

\* entry of match_inbound_email: the activation test and sorted() of the
\* targets
CallBegin ==
    /\ pc = "active"
    /\ \E c \in CallIds : \E req \in ConcurrentRequests :
          /\ calls[c].at = "idle"
          /\ \E targets \in {SortedTargets(router_rules_datastore.router_config_by_target)} :
                calls' = [calls EXCEPT ![c] =
                    IF ~router_rules_datastore.router_rules_datastore_initialized
                    THEN Done(req, Outcome("ConfigNotActiveError", <<>>, <<>>))
                    ELSE IF targets.error # NoError
                    THEN Done(req, Outcome(targets.error.kind, <<>>, <<>>))
                    ELSE Locals("targets", req, targets.list, 1, <<>>, 0, <<>>, <<>>,
                                NoOutcome)]
    /\ UNCHANGED OtherLocals

\* head of the loop over the targets: the log line and sorted() of the rules
\* of the target
CallTarget ==
    /\ \E c \in CallIds :
          /\ calls[c].at = "targets"
          /\ calls[c].i <= Len(calls[c].targets)
          /\ \E rules \in {SortedRules(calls[c].targets[calls[c].i].router_rules)} :
             \E log1 \in {Append(calls[c].matched_info_log,
                                 Line("Evaluating match for target",
                                      calls[c].targets[calls[c].i].target_name,
                                      calls[c].targets[calls[c].i].target_priority))} :
                calls' = [calls EXCEPT ![c] =
                    IF rules.error # NoError
                    THEN Done(@.req, Outcome(rules.error.kind, <<>>, log1))
                    ELSE IF Len(rules.list) = 0
                    THEN [@ EXCEPT !.i = @ + 1, !.matched_info_log = log1]
                    ELSE [@ EXCEPT !.at = "rules", !.rules = rules.list, !.j = 1,
                                   !.matched_info_log = log1]]
    /\ UNCHANGED OtherLocals

\* what a call goes on with after the body of the loop over the rules
AfterRule(locals, step) ==
    IF step.flow = "raise"
    THEN Done(locals.req, Outcome(step.error.kind, <<>>, step.log))
    ELSE IF step.flow = "break"
    THEN [locals EXCEPT !.at = "targets", !.i = @ + 1, !.rules = <<>>, !.j = 0,
                        !.matched_info_log = step.log]
    ELSE IF locals.j = Len(locals.rules)
    THEN [locals EXCEPT !.at = "targets", !.i = @ + 1, !.rules = <<>>, !.j = 0,
                        !.matched_info_log = step.log,
                        !.matched_targets = Append(@, locals.targets[locals.i])]
    ELSE [locals EXCEPT !.j = @ + 1,
                        !.matched_info_log = step.log,
                        !.matched_targets = Append(@, locals.targets[locals.i])]

\* one body of the loop over the rules with matched_info_log an attribute
\* of the router, shared by the calls, instead of a local of the call
CallRule_SharedLog ==
    /\ \E c \in CallIds :
          /\ calls[c].at = "rules"
          /\ \E step \in {EvalRule(calls[c].targets[calls[c].i], calls[c].rules[calls[c].j],
                                   calls[c].req,
                                   calls[1].matched_info_log \o calls[2].matched_info_log)} :
                calls' = [calls EXCEPT ![c] = AfterRule(@, step)]
    /\ UNCHANGED OtherLocals

\* one body of the loop over the rules
CallRule ==
    /\ \E c \in CallIds :
          /\ calls[c].at = "rules"
          /\ \E step \in {EvalRule(calls[c].targets[calls[c].i], calls[c].rules[calls[c].j],
                                   calls[c].req, calls[c].matched_info_log)} :
                calls' = [calls EXCEPT ![c] = AfterRule(@, step)]
    /\ UNCHANGED OtherLocals

\* after the loops: MatchNotFoundError or the result
CallEnd ==
    /\ \E c \in CallIds :
          /\ calls[c].at = "targets"
          /\ calls[c].i > Len(calls[c].targets)
          /\ calls' = [calls EXCEPT ![c] =
                Done(@.req, MatchResult(@.matched_targets, @.matched_info_log))]
    /\ UNCHANGED OtherLocals

\* the handler takes the outcome and answers the POST
CallReturn ==
    /\ \E c \in CallIds :
          /\ calls[c].at = "done"
          /\ calls' = [calls EXCEPT ![c] = Idle]
    /\ UNCHANGED OtherLocals

NextConcurrent ==
    LoadBegin \/ LoadEntry \/ Activate \/ CallBegin \/ CallTarget \/ CallRule
        \/ CallEnd \/ CallReturn

SpecConcurrent == Init /\ [][NextConcurrent]_vars

\* ------------------------------------------------- the load of one file
\* The router is constructed on a file whose top level is known from the
\* start, so that what the load ends with can be told against what the file
\* held.
InitFile ==
    /\ json_config_source \in TopDocs
    /\ router_instance_type \in ConfiguredInstanceTypes
    /\ router_rules_datastore = PyNone
    /\ pc = "new"
    /\ entries_left = 0
    /\ load_error = NoError
    /\ match_request = NoRequest
    /\ match_outcome = NoOutcome
    /\ calls = [c \in CallIds |-> Idle]

\* json.load of the file, then _initialize_from_jsonfile up to the loop over
\* router_rules
LoadFile ==
    /\ pc = "new"
    /\ \E top \in {LoadTop(json_config_source, router_instance_type)} :
          /\ router_rules_datastore' = top.ds
          /\ load_error' = top.error
          /\ entries_left' = top.count
          /\ pc' = IF top.error = NoError THEN "loading" ELSE "failed"
    /\ UNCHANGED <<json_config_source, calls, router_instance_type, match_request,
                   match_outcome>>

NextFile == LoadFile \/ LoadEntry \/ Activate

SpecFile == InitFile /\ [][NextFile]_vars

\* ------------------------------------------------------------- properties
HasDatastore == router_rules_datastore # PyNone
Targets == IF HasDatastore THEN router_rules_datastore.router_config_by_target ELSE {}
Activated == HasDatastore /\ router_rules_datastore.router_rules_datastore_initialized

\* targets a caller may hand to add_target_routing_config: every stored
\* target under every name and priority
CandidateTargets ==
    {[t EXCEPT !.target_name = n, !.target_priority = p] :
        t \in Targets, n \in TargetNames \cup {"t3"}, p \in 1..3}

Collides(t, stored) ==
    \E s \in stored : s.target_name = t.target_name \/ s.target_priority = t.target_priority

\* C1: in every state of a datastore no two stored targets share a
\* target_name or a target_priority, and add_target_routing_config called with
\* a target whose name or priority is already stored raises and returns the
\* datastore with the same targets (and the same target_count)
C1_UniqueTargets ==
    HasDatastore =>
        /\ \A s, t \in Targets :
              s # t => /\ s.target_name # t.target_name
                       /\ s.target_priority # t.target_priority
        /\ \A t \in CandidateTargets :
              Collides(t, Targets) =>
                 LET call == add_target_routing_config(router_rules_datastore, t)
                 IN  /\ call.error # NoError
                     /\ call.ds.router_config_by_target = Targets
                     /\ target_count(call.ds) = target_count(router_rules_datastore)

\* a load that add_target_routing_config ended, refusing a colliding target
C1_Witness ==
    /\ pc = "failed"
    /\ load_error.kind = "InitializationError"
    /\ load_error.reason = "Conflicting entry found for target"
    /\ Cardinality(Targets) >= 1

\* C2 as stated: once a load has failed, its datastore holds no target and
\* is not activated
C2_FailedLoadHoldsNoTarget ==
    (pc = "failed" /\ HasDatastore) =>
        /\ target_count(router_rules_datastore) = 0
        /\ ~router_rules_datastore.router_rules_datastore_initialized

\* C2 amended: a load that has failed ended with an exception and its
\* datastore (if one was created) is not activated; the targets inserted
\* before the failure may still be stored in it
C2_FailedLoadNeverActive ==
    pc = "failed" =>
        /\ load_error # NoError
        /\ ~Activated

\* a load that failed after a target was inserted
C2_Witness ==
    /\ pc = "failed"
    /\ load_error.kind = "InitializationError"
    /\ ~Activated
    /\ Cardinality(Targets) >= 1

\* C3: in an activated datastore the rules of one target have pairwise
\* distinct match_priority (a document with two rules of equal priority in a
\* target does not load)
C3_DistinctRulePriorities ==
    Activated =>
        \A t \in Targets : \A r, q \in t.router_rules :
            r # q => r.match_priority # q.match_priority

\* a call of match_inbound_email has just ended
Called == match_request # NoRequest
\* ... and it went through both loops to the end
Completed == Called /\ match_outcome.kind \in {"Result", "MatchNotFoundError"}

Results == match_outcome.matched_target_results
ResultNames == {Results[k].matched_target_name : k \in 1..Len(Results)}

\* the rule was taken up by the loop over the rules of the target
Checked(t, r) ==
    \E k \in 1..Len(match_outcome.matched_info_log) :
        match_outcome.matched_info_log[k] =
            Line("Checking rule at priority", t.target_name, r.match_priority)

\* the fields of a match pattern against a request
RecipientPasses(r, req) ==
    r.match_pattern.recipient_name = PyNone
    \/ \E k \in 1..Len(req.address_to_collection) :
          LET parts == Split(req.address_to_collection[k])
          IN  Len(parts) = 2 /\ ReSearch(r.match_pattern.recipient_name.str, parts[1])

SenderDomainPasses(r, req) ==
    r.match_pattern.sender_domain = PyNone
    \/ LET parts == Split(req.address_from)
       IN  Len(parts) = 2 /\ ReSearch(r.match_pattern.sender_domain.str, parts[2])

SenderNamePasses(r, req) ==
    r.match_pattern.sender_name = PyNone
    \/ LET parts == Split(req.address_from)
       IN  Len(parts) = 2 /\ ReSearch(r.match_pattern.sender_name.str, parts[1])

WhitelistPasses(r, req) ==
    r.match_pattern.sender_ip_whitelist = PyNone
    \/ /\ IsAddress(req.sender_ip)
       /\ \E n \in r.match_pattern.sender_ip_whitelist.set : InNetwork(req.sender_ip, n)

\* every field present in the pattern matches
FullyPasses(r, req) ==
    /\ RecipientPasses(r, req)
    /\ SenderDomainPasses(r, req)
    /\ SenderNamePasses(r, req)
    /\ WhitelistPasses(r, req)

\* C4: a returned result list names no target twice (first match wins: once
\* a rule of a target has passed, no further rule of it adds a result)
C4_OneResultPerTarget ==
    (Called /\ match_outcome.kind = "Result") =>
        \A i, j \in 1..Len(Results) :
            i # j => Results[i].matched_target_name # Results[j].matched_target_name

\* C5: in a match that ran to its end, a rule all of whose lower-priority
\* siblings failed is itself taken up, and a target with a rule that fully
\* passes is in the result
C5_NextRuleAfterFailure ==
    (Completed /\ Activated) =>
        \A t \in Targets : \A r \in t.router_rules :
            (\A q \in t.router_rules :
                 q.match_priority < r.match_priority => ~FullyPasses(q, match_request))
            => /\ Checked(t, r)
               /\ FullyPasses(r, match_request) => t.target_name \in ResultNames

\* C6: every target of a returned result has a rule all of whose present
\* fields, recipient_name included, match the request
C6_AllFieldsMustMatch ==
    (Called /\ match_outcome.kind = "Result") =>
        \A t \in Targets :
            t.target_name \in ResultNames =>
                \E r \in t.router_rules : FullyPasses(r, match_request)

\* C7: with no recipient, a target all of whose rules set recipient_name is
\* not in the result
C7_NoRecipientNoMatch ==
    (Completed /\ Activated /\ match_request.address_to_collection = <<>>) =>
        \A t \in Targets :
            (\A r \in t.router_rules : r.match_pattern.recipient_name # PyNone)
            => t.target_name \notin ResultNames

\* the priority of the stored target of that name
PriorityOf(name) == (CHOOSE t \in Targets : t.target_name = name).target_priority

\* the targets the log says were taken up, in order
TargetLines ==
    SelectSeq(match_outcome.matched_info_log,
              LAMBDA l : l.text = "Evaluating match for target")

\* C8: in a match that ran to its end every target was taken up, in
\* ascending target_priority; every target with a rule that fully passes is in
\* the result, and the result is in ascending target_priority
C8_FanOutInPriorityOrder ==
    (Completed /\ Activated) =>
        /\ Len(TargetLines) = Cardinality(Targets)
        /\ \A i, j \in 1..Len(TargetLines) : i < j => TargetLines[i].n < TargetLines[j].n
        /\ \A t \in Targets :
              (\E r \in t.router_rules : FullyPasses(r, match_request))
              => t.target_name \in ResultNames
        /\ \A i, j \in 1..Len(Results) :
              i < j => PriorityOf(Results[i].matched_target_name)
                         <= PriorityOf(Results[j].matched_target_name)

\* the two loops of match_inbound_email on the stored targets
Walk ==
    EvalTargets(SortedTargets(Targets).list, 1, match_request, <<>>, <<>>)

C10_NotActiveRefused ==
    (Called /\ ~Activated) =>
        /\ match_outcome.kind = "ConfigNotActiveError"
        /\ match_outcome.matched_info_log = <<>>
        /\ match_outcome.matched_target_results = <<>>

\* a request with a malformed sender, a malformed recipient and an
\* unparsable IP, refused on a datastore that holds a target
C10_Witness ==
    /\ Called /\ ~Activated
    /\ Cardinality(Targets) >= 1
    /\ Len(Split(match_request.address_from)) # 2
    /\ \E k \in 1..Len(match_request.address_to_collection) :
          Len(Split(match_request.address_to_collection[k])) # 2
    /\ ~IsAddress(match_request.sender_ip)
    /\ match_outcome.kind = "ConfigNotActiveError"

\* the addressing data of the request
SenderWellFormed(req) == Len(Split(req.address_from)) = 2
RecipientWellFormed(req, k) == Len(Split(req.address_to_collection[k])) = 2
RecipientsWellFormed(req) ==
    \A k \in 1..Len(req.address_to_collection) : RecipientWellFormed(req, k)

\* C11: on an activated datastore a call with a sender that is not
\* local@domain ends with InputDataError and returns nothing, whatever
\* targets and rules are stored
C11_MalformedSenderRefused ==
    (Called /\ Activated /\ ~SenderWellFormed(match_request)) =>
        /\ match_outcome.kind = "InputDataError"
        /\ match_outcome.matched_target_results = <<>>

\* C12: on an activated datastore a call with a recipient that is not
\* local@domain, at any position, ends with InputDataError, whether or not an
\* earlier recipient matched and whether or not a rule has recipient_name
C12_MalformedRecipientRefused ==
    (Called /\ Activated /\ ~RecipientsWellFormed(match_request)) =>
        match_outcome.kind = "InputDataError"

\* a rule as the loop over the rules would meet it with one of the filters
\* that are not implemented set
WithFilter(r, field, v) == [r EXCEPT !.match_pattern[field] = v]
UnimplementedFilters ==
    {<<"attachment_included", PyBool(TRUE)>>, <<"body_size_minimum", PyInt(0)>>,
     <<"body_size_maximum", PyInt(5)>>}

\* C13: the body of the rule loop, run for a rule with a non-null
\* attachment_included, body_size_minimum or body_size_maximum on a request
\* with well-formed addresses, raises NotImplementedError whatever the other
\* fields of the rule yield
C13_UnimplementedFilterRaises ==
    (Called /\ Activated /\ SenderWellFormed(match_request)
        /\ RecipientsWellFormed(match_request) /\ IsAddress(match_request.sender_ip)) =>
        \A t \in Targets : \A r \in t.router_rules : \A f \in UnimplementedFilters :
            LET body == EvalRule(t, WithFilter(r, f[1], f[2]), match_request, <<>>)
            IN  /\ body.flow = "raise"
                /\ body.error.kind = "NotImplementedError"

\* CIDR membership: the network of a literal addr/prefix is the block of
\* 2^(AddrBits - prefix) addresses that starts where the host bits of addr
\* are cleared; its first address is the network address, its last the
\* broadcast address
BlockSize(n) == Pow2(AddrBits - n.prefix)
NetworkAddress(n) == n.addr - (n.addr % BlockSize(n))
BroadcastAddress(n) == NetworkAddress(n) + BlockSize(n) - 1
CidrMember(ip, n) == \E k \in 0..(BlockSize(n) - 1) : ip = NetworkAddress(n) + k

\* the rules with a whitelist whose sender_domain and sender_name let the
\* request through to the whitelist test
WhitelistRules(t, req) ==
    {r \in t.router_rules :
        /\ r.match_pattern.sender_ip_whitelist # PyNone
        /\ SenderDomainPasses(r, req)
        /\ SenderNamePasses(r, req)}

\* what the body of the rule loop must have done with a rule whose whitelist
\* holds nets, for a sender at ip
WhitelistVerdict(nets, ip, body) ==
    /\ (\E n \in nets : CidrMember(ip, n)) <=> body.flow = "appended"
    /\ (\A n \in nets : ~CidrMember(ip, n)) <=>
           (body.flow = "break" /\ body.error = NoError)
    /\ \A n \in nets :
          ip \in {NetworkAddress(n), BroadcastAddress(n)} => body.flow = "appended"

\* C14: for a rule with a whitelist that the request reaches, the rule body
\* passes (the target is appended) exactly when the sender IP is a member of
\* at least one listed network, the network and the broadcast address
\* included; otherwise the rule fails without an exception.  This holds of
\* the request of the call just made, and, on an activated datastore no call
\* was made on yet, of every sender address of the address space
C14_WhitelistMembership ==
    /\ (Called /\ Activated /\ SenderWellFormed(match_request)
          /\ RecipientsWellFormed(match_request)
          /\ IsAddress(match_request.sender_ip)) =>
          \A t \in Targets : \A r \in WhitelistRules(t, match_request) :
              WhitelistVerdict(r.match_pattern.sender_ip_whitelist.set,
                               match_request.sender_ip,
                               EvalRule(t, r, match_request, <<>>))
    /\ (Activated /\ ~Called) =>
          \A t \in Targets : \A from \in {a_x, B_y} : \A ip \in AddrSpace :
              \A r \in WhitelistRules(t, Request(<<>>, from, ip)) :
                  WhitelistVerdict(r.match_pattern.sender_ip_whitelist.set, ip,
                                   EvalRule(t, r, Request(<<>>, from, ip), <<>>))

\* a call whose sender IP is the broadcast address of a listed network and in
\* no other listed network, and the target of that rule is in the result
C14_Witness ==
    /\ Called /\ Activated
    /\ match_outcome.kind = "Result"
    /\ \E t \in Targets : \E r \in WhitelistRules(t, match_request) :
          /\ t.target_name \in ResultNames
          /\ Cardinality(r.match_pattern.sender_ip_whitelist.set) >= 2
          /\ \E n \in r.match_pattern.sender_ip_whitelist.set :
                /\ match_request.sender_ip = BroadcastAddress(n)
                /\ match_request.sender_ip # NetworkAddress(n)
                /\ \A m \in r.match_pattern.sender_ip_whitelist.set \ {n} :
                      ~CidrMember(match_request.sender_ip, m)

\* the exceptions and the return of match_inbound_email
MatchOutcomeKinds ==
    {"Result", "ConfigNotActiveError", "InputDataError", "MatchNotFoundError",
     "NotImplementedError", "re.error"}

\* C15: a call of match_inbound_email, whatever it ends with, leaves the
\* datastore as it was: its targets with their rules and destinations, its
\* name, revision, instance type and its activated flag
C15_MatchIsReadOnly ==
    [][(match_request = NoRequest /\ match_request' # NoRequest) =>
          /\ match_outcome'.kind \in MatchOutcomeKinds
          /\ router_rules_datastore' = router_rules_datastore]_vars

\* a call that ended with an exception on an activated datastore holding
\* targets
C15_Witness ==
    /\ Called /\ Activated
    /\ Cardinality(Targets) >= 1
    /\ match_outcome.kind \in {"InputDataError", "MatchNotFoundError", "NotImplementedError"}

\* s is an initial part of t
IsPrefix(s, t) == Len(s) <= Len(t) /\ \A k \in 1..Len(s) : s[k] = t[k]

\* what the call would end with were it run alone on the datastore
Alone(c) == match_inbound_email(router_rules_datastore, calls[c].req)

\* C16: however the calls on an activated datastore interleave, a call that
\* has ended holds the outcome (kind, result list and log) that the same
\* request yields when run alone, and a call in progress holds in its log and
\* its matched targets only what its own run alone produces
C16_InterleavingIsInvisible ==
    \A c \in CallIds :
        /\ calls[c].at = "done" => calls[c].outcome = Alone(c)
        /\ calls[c].at \in {"targets", "rules"} =>
              /\ IsPrefix(calls[c].matched_info_log, Alone(c).matched_info_log)
              /\ \A k \in 1..Len(calls[c].matched_targets) :
                    calls[c].matched_targets[k] \in Targets

\* two calls with different requests in progress at once, each with lines
\* in its log, and one of them further than the other
C16_Witness ==
    /\ Activated
    /\ calls[1].at = "rules" /\ calls[2].at = "done"
    /\ calls[1].req # calls[2].req
    /\ Len(calls[1].matched_info_log) >= 2
    /\ calls[2].outcome.kind = "Result"
    /\ Len(calls[2].outcome.matched_info_log) >= 2

\* C17: the activated flag is true only after the whole document was parsed
\* without error: whenever the datastore is activated the loop over
\* router_rules has visited every entry, no exception ended the load, and
\* the loader is past its last statement; a load that ended with an
\* exception holds a datastore that is not activated
C17_ActivatedOnlyAfterWholeLoad ==
    /\ Activated => /\ pc = "active"
                    /\ entries_left = 0
                    /\ load_error = NoError
    /\ load_error # NoError => ~Activated

\* an activated datastore holding the targets of two entries
C17_Witness ==
    /\ Activated
    /\ pc = "active"
    /\ entries_left = 0
    /\ load_error = NoError
    /\ Cardinality(Targets) = 2

\* C18: an activated datastore is frozen: add_target_routing_config called on
\* it with any target returns a datastore holding the same targets, and the
\* setter of router_rules_datastore_initialized called on it with any bool
\* returns a datastore that is still activated
C18_FrozenOnceActivated ==
    Activated =>
        /\ \A t \in CandidateTargets :
              add_target_routing_config(router_rules_datastore, t).ds.router_config_by_target
                 = Targets
        /\ \A value \in BOOLEAN :
              router_rules_datastore_initialized_setter(router_rules_datastore, value)
                 .ds.router_rules_datastore_initialized

\* the required top-level keys the file at hand lacks
RequiredTopLevelAttributes ==
    {"name", "revision_number", "revision_datetime", "instance_type", "router_rules"}
MissingKeys == {k \in RequiredTopLevelAttributes : json_config_source[k] = NoKey}

\* C19: once a file lacking one or more of the required top-level keys has
\* been read, the load has failed with one InitializationError whose detail
\* names every missing key, each once, and no key that is present; no
\* datastore was created
C19_MissingKeysReportedTogether ==
    (pc # "new" /\ MissingKeys # {}) =>
        /\ pc = "failed"
        /\ load_error.kind = "InitializationError"
        /\ {load_error.detail[k] : k \in 1..Len(load_error.detail)} = MissingKeys
        /\ Len(load_error.detail) = Cardinality(MissingKeys)
        /\ router_rules_datastore = PyNone

\* a failed load of a file that lacks revision_number and router_rules and at
\* least one more key
C19_Witness ==
    /\ pc = "failed"
    /\ {"revision_number", "router_rules"} \subseteq MissingKeys
    /\ Cardinality(MissingKeys) >= 3
    /\ Len(load_error.detail) = Cardinality(MissingKeys)
    /\ router_rules_datastore = PyNone

\* the file at hand holds every required key and an instance_type that is
\* not the name of a supported instance, whatever its case, or the name of a
\* supported instance other than the one the process is configured with
ForeignInstanceType ==
    /\ MissingKeys = {}
    /\ \/ ~IsStr(json_config_source.instance_type)
       \/ Upper(json_config_source.instance_type.str) \notin RouterInstanceType
       \/ Upper(json_config_source.instance_type.str) # router_instance_type

\* C20: once a file whose instance_type is unsupported or names another
\* instance has been read, the load has failed with an InitializationError,
\* the datastore holds no target and is not activated
C20_ForeignInstanceRejected ==
    (pc # "new" /\ ForeignInstanceType) =>
        /\ pc = "failed"
        /\ load_error.kind = "InitializationError"
        /\ Targets = {}
        /\ ~Activated

\* a value of target_priority that is a strictly positive number: a
\* positive integer, or the text of one
PositiveNumber(v) ==
    \/ IsInt(v) /\ v.int > 0
    \/ /\ IsStr(v) /\ Len(v.str) > 0
       /\ \A k \in 1..Len(v.str) : IsDigit(v.str[k])
       /\ \E k \in 1..Len(v.str) : v.str[k] # "0"

\* C21: every stored target has target_priority > 0, and while the loader
\* is in the loop over router_rules, the loop body run on any target entry
\* that holds a target_priority which is not a strictly positive number
\* raises InitializationError
C21_TargetPriorityPositive ==
    /\ \A t \in Targets : t.target_priority > 0
    /\ (pc = "loading" /\ ~Called /\ entries_left > 0) =>
          \A tc \in TargetDocs : \A tc_name \in TargetNames :
              (tc.target_priority # NoKey /\ ~PositiveNumber(tc.target_priority)) =>
                  ProcessTarget(router_rules_datastore, tc_name, tc).error.kind
                      = "InitializationError"

\* a match_rules entry that the loop over match_rules, run on it alone,
\* does not turn into a rule
InvalidRule(this_rule) ==
    ParseRule(this_rule, EmptyLog, <<>>).rules = <<>>

\* the invalid rules of a list, by position
InvalidRules(match_rules) ==
    {k \in 1..Len(match_rules) : InvalidRule(match_rules[k])}

\* call, the loop body run on a target entry over datastore ds, ended with one
\* InitializationError that lists the priority of every invalid rule of
\* match_rules that has one, and left ds as it was
RuleErrorsReported(match_rules, ds, call) ==
    /\ call.error.kind = "InitializationError"
    /\ \A k \in InvalidRules(match_rules) :
          ToFloat(match_rules[k].match_priority).error = NoError
              => ToFloat(match_rules[k].match_priority).value \in DOMAIN call.error.detail
    /\ call.ds = ds

\* C22: while the loader is in the loop over router_rules, the loop body run
\* on any target entry with a sound target_priority and two or more invalid
\* rules raises one InitializationError that enumerates the priority of
\* every invalid rule, and commits nothing to the datastore
C22_RuleErrorsAccumulated ==
    (pc = "loading" /\ ~Called /\ entries_left > 0) =>
        \A tc \in TargetDocs : \A tc_name \in TargetNames :
            (/\ tc.match_rules # NoKey /\ tc.destination # NoKey
             /\ PositiveNumber(tc.target_priority)
             /\ Cardinality(InvalidRules(tc.match_rules.list)) >= 2) =>
                RuleErrorsReported(tc.match_rules.list, router_rules_datastore,
                                   ProcessTarget(router_rules_datastore, tc_name, tc))

\* C23: add_target_routing_config called with a target identical to a stored
\* one (same name, priority, rules and destinations) raises
\* DuplicateTargetError, and called with a target that differs from every
\* stored one but shares a name or a priority with one raises
\* InitializationError
C23_DuplicateVersusConflict ==
    HasDatastore =>
        \A t \in CandidateTargets :
            LET call == add_target_routing_config(router_rules_datastore, t)
            IN  /\ t \in Targets => call.error.kind = "DuplicateTargetError"
                /\ (t \notin Targets /\ Collides(t, Targets))
                      => call.error.kind = "InitializationError"

\* how many times msg stands in the list msgs
Count(msgs, msg) == Cardinality({k \in 1..Len(msgs) : msgs[k] = msg})

\* the messages an error log holds for a priority
Messages(log, prio) == IF prio \in DOMAIN log THEN log[prio] ELSE <<>>

\* what the error of a failed target entry must say of a rule whose
\* sender_ip_whitelist holds entries: one message per entry that is no
\* network, and the empty-set message exactly when no entry is a network
WhitelistReported(entries, msgs) ==
    /\ Count(msgs, "Unable to parse entry as an IP network")
          = Cardinality({k \in 1..Len(entries) : ~IsNetwork(entries[k])})
    /\ Count(msgs, "sender_ip_whitelist field specified but no valid IP networks were found")
          = IF \E k \in 1..Len(entries) : IsNetwork(entries[k]) THEN 0 ELSE 1

\* the rules of a list that hold a sender_ip_whitelist with an entry that
\* is no network
BadWhitelists(match_rules) ==
    {k \in 1..Len(match_rules) :
        /\ match_rules[k].sender_ip_whitelist # NoKey
        /\ \E e \in 1..Len(match_rules[k].sender_ip_whitelist.str) :
              ~IsNetwork(match_rules[k].sender_ip_whitelist.str[e])}

\* C24: while the loader is in the loop over router_rules, the loop body run
\* on a target entry one of whose rules has a whitelist with an entry that is
\* no network raises InitializationError and commits nothing, whether or not
\* other entries are networks; the error holds, under the priority of each
\* such rule, one message per bad entry (parsing went on after each), and
\* the empty-set message exactly when no entry of the whitelist is a network
C24_WhitelistParsing ==
    (pc = "loading" /\ ~Called /\ entries_left > 0) =>
        \A tc \in TargetDocs : \A tc_name \in TargetNames :
            (/\ tc.match_rules # NoKey /\ tc.destination # NoKey
             /\ PositiveNumber(tc.target_priority)
             /\ \A k \in 1..Len(tc.match_rules.list) :
                   ParseRule(tc.match_rules.list[k], EmptyLog, <<>>).error = NoError
             /\ BadWhitelists(tc.match_rules.list) # {}) =>
                /\ ProcessTarget(router_rules_datastore, tc_name, tc).error.kind
                      = "InitializationError"
                /\ ProcessTarget(router_rules_datastore, tc_name, tc).ds
                      = router_rules_datastore
                /\ \A k \in BadWhitelists(tc.match_rules.list) :
                      WhitelistReported(
                          tc.match_rules.list[k].sender_ip_whitelist.str,
                          Messages(ProcessTarget(router_rules_datastore, tc_name, tc).error.detail,
                                   tc.match_rules.list[k].match_priority.int))

\* a load that failed on a whitelist holding a network between two entries
\* that are none: both bad entries are reported and the set was not empty
C24_Witness ==
    /\ pc = "failed"
    /\ load_error.kind = "InitializationError"
    /\ load_error.reason = "rule(s) had following errors"
    /\ \E prio \in DOMAIN load_error.detail :
          /\ Count(load_error.detail[prio], "Unable to parse entry as an IP network") = 2
          /\ Count(load_error.detail[prio],
                   "sender_ip_whitelist field specified but no valid IP networks were found") = 0

\* a field of a stored match pattern holds something: not None and not empty
Present(v) == v # PyNone /\ LenOf(v) > 0

\* a match_rules entry holding none of the three text fields, an empty text
\* counting as none
NoTextField(this_rule) ==
    \A f \in {"sender_domain", "sender_name", "recipient_name"} :
        this_rule[f] = NoKey \/ (HasLen(this_rule[f]) /\ LenOf(this_rule[f]) = 0)

\* C25: every stored rule has at least one of sender_domain, sender_name and
\* recipient_name present, and while the loader is in the loop over
\* router_rules, the loop body run on a target entry one of whose rules has
\* none of the three (absent or empty) raises InitializationError and commits
\* nothing
C25_SomeTextFieldPresent ==
    /\ \A t \in Targets : \A r \in t.router_rules :
          \/ Present(r.match_pattern.sender_domain)
          \/ Present(r.match_pattern.sender_name)
          \/ Present(r.match_pattern.recipient_name)
    /\ (pc = "loading" /\ ~Called /\ entries_left > 0) =>
          \A tc \in TargetDocs : \A tc_name \in TargetNames :
              (/\ tc.match_rules # NoKey /\ tc.destination # NoKey
               /\ PositiveNumber(tc.target_priority)
               /\ \A k \in 1..Len(tc.match_rules.list) :
                     ParseRule(tc.match_rules.list[k], EmptyLog, <<>>).error = NoError
               /\ \E k \in 1..Len(tc.match_rules.list) :
                     NoTextField(tc.match_rules.list[k])) =>
                  /\ ProcessTarget(router_rules_datastore, tc_name, tc).error.kind
                        = "InitializationError"
                  /\ ProcessTarget(router_rules_datastore, tc_name, tc).ds
                        = router_rules_datastore

\* an activated datastore holding the rule read from an entry with
\* sender_name 'a' and an empty recipient_name: the empty text was stored as
\* None
C25_Witness ==
    /\ Activated
    /\ \E t \in Targets : \E r \in t.router_rules :
          /\ r.match_pattern.sender_name = P_a
          /\ r.match_pattern.recipient_name = PyNone
          /\ r.match_pattern.sender_domain = PyNone
          /\ r.match_priority = 1
          /\ \E q \in t.router_rules :
                q.match_priority = 2 /\ q.match_pattern.sender_domain = P_x

\* the destinations of the stored targets, each also under a later sequence
CandidateDestinations ==
    {[d EXCEPT !.destination_sequence = seq] :
        d \in UNION {t.destinations : t \in Targets},
        seq \in {DestinationSequence, DestinationSequence + 10}}

\* C26: `<` on destinations never raises, of two distinct destinations
\* exactly one is less than the other, a destination whose uri is None is
\* less than one that differs from it only by holding a uri, and `<` is
\* transitive
C26_DestinationTotalOrder ==
    /\ \A a, b \in CandidateDestinations :
          /\ DestinationLt(a, b) \in {"True", "False"}
          /\ a # b => (DestinationLt(a, b) = "True") # (DestinationLt(b, a) = "True")
          /\ (a.destination_uri = PyNone /\ b.destination_uri # PyNone
                /\ a.destination_sequence = b.destination_sequence
                /\ a.destination_type = b.destination_type)
                => DestinationLt(a, b) = "True"
    /\ \A a, b, c \in CandidateDestinations :
          (DestinationLt(a, b) = "True" /\ DestinationLt(b, c) = "True")
              => DestinationLt(a, c) = "True"

\* C27: an activated datastore holds at least one target
C27_ActivatedHoldsTarget ==
    Activated => target_count(router_rules_datastore) >= 1

\* C28: every target named in a returned result has a rule whose present
\* sender_domain, sender_name and sender_ip_whitelist all match the sender of
\* the request
C28_MatchedOnSenderSide ==
    (Called /\ match_outcome.kind = "Result") =>
        \A k \in 1..Len(Results) :
            \E t \in Targets :
                /\ t.target_name = Results[k].matched_target_name
                /\ \E r \in t.router_rules :
                      /\ SenderDomainPasses(r, match_request)
                      /\ SenderNamePasses(r, match_request)
                      /\ WhitelistPasses(r, match_request)

\* a result that names one of two targets: the one named has a rule with a
\* sender_domain and a whitelist that both match, the other has a rule
\* whose sender_domain does not match
C28_Witness ==
    /\ Called /\ match_outcome.kind = "Result"
    /\ \E t, u \in Targets :
          /\ t.target_name \in ResultNames
          /\ u.target_name \notin ResultNames
          /\ \E r \in t.router_rules :
                /\ r.match_pattern.sender_domain # PyNone
                /\ r.match_pattern.sender_ip_whitelist # PyNone
                /\ SenderDomainPasses(r, match_request)
                /\ WhitelistPasses(r, match_request)
          /\ \E r \in u.router_rules : ~SenderDomainPasses(r, match_request)

C30_OutcomeKinds ==
    Called =>
        match_outcome.kind \in {"Result", "ConfigNotActiveError", "InputDataError",
                                "MatchNotFoundError", "NotImplementedError"}

====
